---- MODULE Spec2Model ----
(***************************************************************************)
(* podcast-ctl: the publishing pipeline (create-episode, render-channel,   *)
(* upload_contents, generate_podcast_xml) as a state machine.              *)
(*                                                                         *)
(* Strings are sequences of tokens (short literal substrings); a format!   *)
(* is the concatenation of its pieces.                                     *)
(***************************************************************************)
EXTENDS Integers, Sequences, FiniteSets, TLC

VARIABLES
    dir,              \* episode_dir: file name -> stored yaml document
    store,            \* object store: object key -> [content_type, bytes]
    pc,               \* position of the running invocation
    command,          \* which subcommand the invocation runs
    data,             \* the parsed command line arguments
    publish_date,     \* create_episode local
    size,             \* create_episode local (file_metadata.len())
    upload_url,       \* create_episode local
    duraction,        \* create_episode local (metadata.duration)
    episode,          \* create_episode local (the Episode being built)
    episodes,         \* render_xml local (the vector get_all_episodes returned)
    rendered_podcast, \* render_xml local
    stdout,           \* what the invocation printed
    result,           \* the Result the invocation returns
    trace,            \* the external calls of the running invocation, in order
    dir_before,       \* episode_dir as it was when the invocation started
    uuids,            \* number of Uuid::new_v4() values drawn so far
    ops,              \* number of invocations started so far
    pb,               \* upload_contents: the byte counter of the ProgressBar
    bytes_read        \* upload_contents: bytes the body stream has yielded

vars == <<dir, store, pc, command, data, publish_date, size, upload_url,
          duraction, episode, episodes, rendered_podcast, stdout, result,
          trace, dir_before, uuids, ops, pb, bytes_read>>

(***************************************************************************)
(* Bounds                                                                  *)
(***************************************************************************)
MaxOps == 2
MaxSeason == 2
MaxEpisodeNumber == 2
MaxKeyLen == 4
MaxBody == 3

(***************************************************************************)
(* Generic helpers                                                         *)
(***************************************************************************)
Last(s) == s[Len(s)]

\* every ordering of a finite set, as sequences
Orderings(S) ==
    {f \in [1..Cardinality(S) -> S] : \A i, j \in DOMAIN f : f[i] = f[j] => i = j}

(***************************************************************************)
(* format!("{}", n) for an unsigned integer, and its inverse               *)
(***************************************************************************)
DigitChars == <<"0", "1", "2", "3", "4", "5", "6", "7", "8", "9">>

RECURSIVE format_uint(_)
format_uint(n) ==
    IF n < 10 THEN <<DigitChars[n + 1]>>
    ELSE format_uint(n \div 10) \o <<DigitChars[(n % 10) + 1]>>

DigitValue(c) == CHOOSE d \in 0..9 : DigitChars[d + 1] = c

RECURSIVE parse_uint(_)
parse_uint(s) ==
    IF Len(s) = 1 THEN DigitValue(s[1])
    ELSE 10 * parse_uint(SubSeq(s, 1, Len(s) - 1)) + DigitValue(Last(s))

(***************************************************************************)
(* chrono: NaiveDate::parse_from_str(.., "%Y-%m-%d"), and_hms(0,0,0),      *)
(* format("%Y-%m-%d"), format("%a, %d %b %Y %T %z"), ts_seconds.           *)
(* A date is its number of days since 1970-01-01.                          *)
(***************************************************************************)
NoDate == -1

DateArgs == {"2022-01-01", "2022-1-1", "2022-01-02", "tomorrow"}

parse_from_str(s) ==
    CASE s = "2022-01-01" -> 18993
      [] s = "2022-1-1"   -> 18993
      [] s = "2022-01-02" -> 18994
      [] OTHER            -> NoDate

\* seconds since the epoch of midnight UTC of the day
and_hms_0(day) == day * 86400

format_ymd(secs) ==
    CASE secs = 18993 * 86400 -> "2022-01-01"
      [] secs = 18994 * 86400 -> "2022-01-02"
      [] OTHER                -> "1970-01-01"

format_rfc822(secs) ==
    CASE secs = 18993 * 86400 -> "Sat, 01 Jan 2022 00:00:00 +0000"
      [] secs = 18994 * 86400 -> "Sun, 02 Jan 2022 00:00:00 +0000"
      [] OTHER                -> "Thu, 01 Jan 1970 00:00:00 +0000"

(***************************************************************************)
(* config.rs                                                               *)
(***************************************************************************)
ChannelDetails ==
    [title |-> <<"T">>, link |-> <<"link">>, has_link |-> TRUE,
     description |-> <<"D">>, subtitle |-> <<"S">>, summary |-> <<"M", "&", "M">>,
     explicit |-> TRUE, image |-> <<"image">>,
     owner |-> [name |-> <<"N">>, email |-> <<"e@x">>]]

PublishingConfig ==
    [region |-> [name |-> <<"nyc3">>, endpoint |-> <<"nyc3.example.com">>],
     bucket |-> <<"bucket">>, prefix |-> <<"pod">>]

\* the Episode value with nothing filled in
NoEpisode ==
    [id |-> <<>>, title |-> <<>>, released_at |-> 0, season |-> 0,
     episode_number |-> 0,
     media |-> [url |-> <<>>, duration |-> 0, bytes |-> 0]]

\* serde_yaml::to_string(&episode): camelCase keys, released_at as ts_seconds
to_yaml(ep) ==
    [id |-> ep.id, title |-> ep.title, releasedAt |-> ep.released_at,
     season |-> ep.season, episodeNumber |-> ep.episode_number,
     media |-> [url |-> ep.media.url, duration |-> ep.media.duration,
                bytes |-> ep.media.bytes]]

\* serde_yaml::from_str::<Episode>(&text)
from_yaml(y) ==
    [id |-> y.id, title |-> y.title, released_at |-> y.releasedAt,
     season |-> y.season, episode_number |-> y.episodeNumber,
     media |-> [url |-> y.media.url, duration |-> y.media.duration,
                bytes |-> y.media.bytes]]

(***************************************************************************)
(* upload.rs: content-type resolution                                      *)
(***************************************************************************)
\* split a path at its "/" separators
RECURSIVE split_path(_, _)
split_path(s, cur) ==
    IF s = <<>> THEN <<cur>>
    ELSE IF Head(s) = "/" THEN <<cur>> \o split_path(Tail(s), <<>>)
    ELSE split_path(Tail(s), Append(cur, Head(s)))

IsNormalComponent(seg) == seg # <<>> /\ seg # <<".">>

\* std::path::Path::file_name: the last component, unless it is ".."; <<>> is None
file_name(path) ==
    LET c == SelectSeq(split_path(path, <<>>), IsNormalComponent)
    IN IF c = <<>> THEN <<>>
       ELSE IF Last(c) = <<".", ".">> THEN <<>>
       ELSE Last(c)

DotPositions(name) == {i \in DOMAIN name : name[i] = "."}

LastDot(name) == CHOOSE i \in DotPositions(name) : \A j \in DotPositions(name) : j <= i

\* std::path::Path::extension: the part of file_name after its last ".",
\* None when there is no ".", or when the only "." is the first character
extension(path) ==
    LET name == file_name(path)
    IN IF name = <<>> \/ DotPositions(name) = {} THEN [some |-> FALSE, ext |-> <<>>]
       ELSE IF LastDot(name) = 1 THEN [some |-> FALSE, ext |-> <<>>]
       ELSE [some |-> TRUE, ext |-> SubSeq(name, LastDot(name) + 1, Len(name))]

NoMime == "none"

\* mime_guess::MimeGuess::from_ext(..).first(): the extension table
from_ext(ext) ==
    CASE ext = <<"mp3">> -> "audio/mpeg"
      [] ext = <<"xml">> -> "text/xml"
      [] OTHER           -> NoMime

\* mime_guess::from_path(&object_key).first()
from_path(path) ==
    LET e == extension(path)
    IN IF e.some THEN from_ext(e.ext) ELSE NoMime

\* object_key.ends_with("mp3"); "mp3" is the only token that ends in mp3
ends_with_mp3(key) == key # <<>> /\ Last(key) = "mp3"

\* mime::MPEG.to_string(): mime::MPEG is the subtype name, not a media type
MPEG == "mpeg"

APPLICATION_OCTET_STREAM == "application/octet-stream"

\* let mime = ... of upload_contents
mime(object_key) ==
    IF from_path(object_key) # NoMime THEN from_path(object_key)
    ELSE IF ends_with_mp3(object_key) THEN MPEG
    ELSE APPLICATION_OCTET_STREAM

\* Ok(format!("https://{}.{}/{}", &bucket, endpoint, &object_key))
public_url(region, bucket, object_key) ==
    <<"https://">> \o bucket \o <<".">> \o region.endpoint \o <<"/">> \o object_key

\* the PutObjectRequest of upload_contents
put_request(sz, bucket, object_key) ==
    [bucket |-> bucket, key |-> object_key, content_length |-> sz,
     acl |-> "public-read", content_type |-> mime(object_key)]

\* the object store after a put request that took effect
put_object(st, req) ==
    [k \in DOMAIN st \cup {req.key} |->
        IF k = req.key
        THEN [content_type |-> req.content_type, bytes |-> req.content_length,
              acl |-> req.acl]
        ELSE st[k]]

(***************************************************************************)
(* main.rs: the episode directory                                          *)
(***************************************************************************)
NotesFile == <<"notes", ".", "txt">>

PreFile1 == <<"pilot", ".", "yaml">>

PreFile2 == <<"second", ".", "yaml">>

Sizes == {1, 2}

Durations == {5}

\* episode_file: episode_dir joined with format!("{}-session.yaml", publish_name)
episode_file(publish_name) == <<publish_name, "-session", ".", "yaml">>

\* fs::write(path, contents): creates the file or replaces its contents
fs_write(d, path, contents) ==
    [f \in DOMAIN d \cup {path} |-> IF f = path THEN contents ELSE d[f]]

\* the paths of get_all_episodes that pass the extension filter
yaml_paths(d) == {f \in DOMAIN d : extension(f) = [some |-> TRUE, ext |-> <<"yaml">>]}

\* get_all_episodes: fs::read_dir gives the entries in an order the platform
\* chooses; every possible result vector
get_all_episodes(d) ==
    {[i \in DOMAIN o |-> from_yaml(d[o[i]])] : o \in Orderings(yaml_paths(d))}

\* the for loop of update_episode_numbers, from the running (season_number, episode_number)
RECURSIVE scan_episodes(_, _, _)
scan_episodes(all, season_number, episode_number) ==
    IF all = <<>> THEN <<season_number, episode_number>>
    ELSE LET e == Head(all)
         IN IF season_number <= e.season
            THEN scan_episodes(Tail(all), e.season,
                               IF episode_number <= e.episode_number
                               THEN e.episode_number ELSE episode_number)
            ELSE scan_episodes(Tail(all), season_number, episode_number)

\* update_episode_numbers without the increment of line 191
update_episode_numbers_no_increment(ep, all) ==
    LET r == scan_episodes(all, 0, 0)
    IN [ep EXCEPT !.season = r[1], !.episode_number = r[2]]

\* update_episode_numbers leaving the Episode alone when the directory is empty
update_episode_numbers_keep_placeholders(ep, all) ==
    LET r == scan_episodes(all, 0, 0)
    IN IF all = <<>> THEN ep
       ELSE [ep EXCEPT !.season = r[1], !.episode_number = r[2] + 1]

\* update_episode_numbers, given the vector get_all_episodes returned
update_episode_numbers(ep, all) ==
    LET r == scan_episodes(all, 0, 0)
    IN [ep EXCEPT !.season = r[1], !.episode_number = r[2] + 1]

\* Uuid::new_v4().to_string(), the n-th value drawn
new_v4(n) == <<"uuid-">> \o format_uint(n)

EpisodeTitle == <<"A", "&", "B">>

\* the Episode literal of create_episode
new_episode(id, title, released_at, url, duration, bytes) ==
    [id |-> id, title |-> title, released_at |-> released_at, season |-> 1,
     episode_number |-> 0,
     media |-> [url |-> url, duration |-> duration, bytes |-> bytes]]

\* object_key of create_episode
artifact_key(publish_name) ==
    PublishingConfig.prefix \o <<"/", "artifacts", "/", publish_name, ".", "mp3">>

\* object_key of render_xml
podcast_key == PublishingConfig.prefix \o <<"/", "podcast", ".", "xml">>

Call(name, ok) == [call |-> name, ok |-> ok]

(***************************************************************************)
(* xml.rs: the feed document, as the tree of elements the writer emits     *)
(***************************************************************************)
\* quick_xml escaping of one token of text or of an attribute value
escape_token(t) ==
    CASE t = "&"     -> "&amp;"
      [] t = "<"     -> "&lt;"
      [] t = ">"     -> "&gt;"
      [] t = "<p>"   -> "&lt;p&gt;"
      [] t = "</p>"  -> "&lt;/p&gt;"
      [] t = "&amp;" -> "&amp;amp;"
      [] OTHER       -> t

escape(str) == [i \in DOMAIN str |-> escape_token(str[i])]

\* what an XML parser reads back from an escaped token
unescape_token(t) ==
    CASE t = "&amp;"       -> "&"
      [] t = "&lt;"        -> "<"
      [] t = "&gt;"        -> ">"
      [] t = "&lt;p&gt;"   -> "<p>"
      [] t = "&lt;/p&gt;"  -> "</p>"
      [] t = "&amp;amp;"   -> "&amp;"
      [] OTHER             -> t

unescape(str) == [i \in DOMAIN str |-> unescape_token(str[i])]

\* comrak::markdown_to_html of one paragraph of plain text
markdown_to_html(str) ==
    <<"<p>">> \o [i \in DOMAIN str |-> IF str[i] = "&" THEN "&amp;" ELSE str[i]]
              \o <<"</p>", "\n">>

Attr(key, value) == [key |-> key, value |-> escape(value)]

\* add_text_element(writer, key, value)
add_text_element(key, value) ==
    [name |-> key, attrs |-> <<>>, text |-> escape(value), children |-> <<>>]

\* writer.create_element(key).with_attribute(..).write_empty()
write_empty(key, attrs) ==
    [name |-> key, attrs |-> attrs, text |-> <<>>, children |-> <<>>]

\* writer.create_element(key).with_attribute(..).write_inner_content(..)
write_inner_content(key, attrs, children) ==
    [name |-> key, attrs |-> attrs, text |-> <<>>, children |-> children]

\* Utc::now().format("%a, %d %b %Y %T %z")
UtcNow == <<"Tue, 03 Nov 2026 00:00:00 +0000">>

\* impl XmlOutput for Episode: add_object
add_object(self) ==
    write_inner_content("item", <<>>,
        <<add_text_element("title", self.title),
          add_text_element("itunes:subtitle", <<"Fill me in">>),
          add_text_element("link", <<"Fill me in, or delete me">>),
          add_text_element("guid", self.id),
          write_empty("enclosure",
              <<Attr("url", self.media.url),
                Attr("length", format_uint(self.media.bytes)),
                Attr("type", <<"audio/mpeg">>)>>),
          add_text_element("pubDate", <<format_rfc822(self.released_at)>>),
          add_text_element("description", markdown_to_html(<<"Fill me in">>)),
          add_text_element("itunes:summary", markdown_to_html(<<"Fill me in">>)),
          add_text_element("itunes:duration", format_uint(self.media.duration)),
          add_text_element("itunes:season", format_uint(self.season)),
          add_text_element("itunes:episode", format_uint(self.episode_number)),
          write_empty("itunes:image", <<Attr("href", ChannelDetails.image)>>),
          add_text_element("itunes:title", self.title)>>)

\* the elements written before the episodes inside <channel>
channel_head(channel_details) ==
    <<add_text_element("title", channel_details.title),
      add_text_element("description", markdown_to_html(channel_details.title))>>
    \o (IF channel_details.has_link
        THEN <<add_text_element("link", channel_details.link)>> ELSE <<>>)
    \o <<add_text_element("language", <<"en-us">>),
         add_text_element("copyright", <<"Copyright 2022">>),
         add_text_element("lastBuildDate", UtcNow),
         add_text_element("pubDate", UtcNow),
         add_text_element("docs", <<"http://blogs.law.harvard.edu/tech/rss">>),
         add_text_element("webMaster", channel_details.owner.email),
         add_text_element("itunes:type", <<"Serial">>),
         add_text_element("itunes:author", channel_details.owner.email),
         add_text_element("itunes:subtitle", channel_details.subtitle),
         add_text_element("itunes:summary", markdown_to_html(channel_details.summary)),
         write_inner_content("itunes:owner", <<>>,
             <<add_text_element("itunes:name", channel_details.owner.name),
               add_text_element("itunes:email", channel_details.owner.email)>>),
         add_text_element("itunes:explicit",
             IF channel_details.explicit THEN <<"Yes">> ELSE <<"No">>),
         write_empty("itunes:image", <<Attr("href", channel_details.image)>>),
         write_empty("itunes:category", <<Attr("text", <<"Fiction">>)>>)>>

\* the loop of line 88 walking the vector backwards
add_objects_reversed(all) == [i \in DOMAIN all |-> add_object(all[Len(all) + 1 - i])]

\* for episode in &episodes { episode.add_object(writer); }
add_objects(all) == [i \in DOMAIN all |-> add_object(all[i])]

\* generate_podcast_xml(channel_details, episodes)
generate_podcast_xml(channel_details, all) ==
    [decl |-> [version |-> "1.0", encoding |-> "UTF-8"],
     root |-> write_inner_content("rss",
         <<Attr("xmlns:itunes", <<"http://www.itunes.com/dtds/podcast-1.0.dtd">>),
           Attr("xmlns:content", <<"http://purl.org/rss/1.0/modules/content/">>),
           Attr("version", <<"2.0">>)>>,
         <<write_inner_content("channel", <<>>,
               channel_head(channel_details) \o add_objects(all))>>)]

NoDocument ==
    [decl |-> [version |-> "", encoding |-> ""],
     root |-> write_empty("", <<>>)]

\* rendered_podcast.len(): the number of elements of the document
RECURSIVE element_count(_)
element_count(els) ==
    IF els = <<>> THEN 0
    ELSE 1 + element_count(Head(els).children) + element_count(Tail(els))

document_len(doc) == 1 + element_count(<<doc.root>>)

(***************************************************************************)
(* Initial states: an episode directory written by earlier runs and edited *)
(* by hand (seasons are only ever raised by editing a record)              *)
(***************************************************************************)
Numberings == (1..MaxSeason) \X (1..MaxEpisodeNumber)

stored_episode(id, numbering) ==
    to_yaml([new_episode(id, <<"Old">>, and_hms_0(18993), <<"https://x">>, 5, 1)
                EXCEPT !.season = numbering[1], !.episode_number = numbering[2]])

NotesText == to_yaml(NoEpisode)

InitialDirs ==
    {[f \in {NotesFile} |-> NotesText]}
    \cup {[f \in {NotesFile, PreFile1} |->
             IF f = NotesFile THEN NotesText ELSE stored_episode(<<"a">>, n)]
          : n \in Numberings}
    \cup {[f \in {NotesFile, PreFile1, PreFile2} |->
             IF f = NotesFile THEN NotesText
             ELSE IF f = PreFile1 THEN stored_episode(<<"a">>, nn[1])
             ELSE stored_episode(<<"<", "b">>, nn[2])]
          : nn \in {x \in Numberings \X Numberings : x[1] # x[2]}}

NoObjects == [k \in {} |-> 0]

NoArgs == [date |-> "", upload |-> FALSE, object_key |-> <<>>]

Init ==
    /\ dir \in InitialDirs
    /\ store = NoObjects
    /\ pc = "idle"
    /\ command = "none"
    /\ data = NoArgs
    /\ publish_date = 0
    /\ size = 0
    /\ upload_url = <<>>
    /\ duraction = 0
    /\ episode = NoEpisode
    /\ episodes = <<>>
    /\ rendered_podcast = NoDocument
    /\ stdout = <<>>
    /\ result = "none"
    /\ trace = <<>>
    /\ dir_before = dir
    /\ uuids = 0
    /\ ops = 0
    /\ pb = 0
    /\ bytes_read = 0

(***************************************************************************)
(* create_episode                                                          *)
(***************************************************************************)
publish_name == format_ymd(publish_date)

\* lines 113-120: parse the date argument, derive publish_name and object_key
create_episode_parse(date) ==
    /\ pc = "idle"
    /\ ops < MaxOps
    /\ ops' = ops + 1
    /\ command' = "create-episode"
    /\ data' = [NoArgs EXCEPT !.date = date]
    /\ dir_before' = dir
    /\ trace' = <<>>
    /\ stdout' = <<>>
    /\ IF parse_from_str(date) = NoDate
       THEN /\ result' = "ChronoError"
            /\ pc' = "exit"
            /\ UNCHANGED publish_date
       ELSE /\ publish_date' = and_hms_0(parse_from_str(date))
            /\ pc' = "open"
            /\ UNCHANGED result
    /\ UNCHANGED <<dir, store, size, upload_url, duraction, episode,
                   episodes, rendered_podcast, uuids,
                   pb, bytes_read>>

\* lines 122-124: open the file and read its length
create_episode_open ==
    /\ pc = "open"
    /\ \/ /\ trace' = Append(trace, Call("open", FALSE))
          /\ result' = "IoError"
          /\ pc' = "exit"
          /\ UNCHANGED size
       \/ /\ trace' = Append(trace, Call("open", TRUE))
          /\ size' \in Sizes
          /\ pc' = "upload"
          /\ UNCHANGED result
    /\ UNCHANGED <<dir, store, command, data, publish_date, upload_url, duraction,
                   episode, episodes, rendered_podcast, stdout, dir_before, uuids, ops,
                   pb, bytes_read>>

(***************************************************************************)
(* upload.rs: the body stream and its progress accounting                  *)
(***************************************************************************)
\* FramedRead::new: the capacity of the read buffer, the most one chunk holds
ReadCapacity == 8192

Min(a, b) == IF a < b THEN a ELSE b

\* the length of the source handed to upload_contents by the running caller
body_len == IF pc = "render_upload" THEN document_len(rendered_podcast) ELSE size

\* the sizes the next chunk of the stream can have: a Cursor fills the
\* buffer, a file read may return any non-empty part of it
chunk_sizes ==
    IF pc = "render_upload"
    THEN {Min(body_len - bytes_read, ReadCapacity)}
    ELSE 1..Min(body_len - bytes_read, ReadCapacity)

\* the progress closure adding the running total instead of the chunk size
progress_adds_total(count, amount, total) == count + total

\* let progress = Box::new(move |amount: u64, _| { pb.add(amount); })
progress(count, amount, total) == count + amount

\* ReadProgressStream::poll_next: one chunk is read from the source, counted
\* in bytes_read and reported to the progress closure
poll_next ==
    /\ pc \in {"upload", "render_upload", "upload_contents"}
    /\ bytes_read < body_len
    /\ \E amount \in chunk_sizes :
          /\ bytes_read' = bytes_read + amount
          /\ pb' = progress(pb, amount, bytes_read')
    /\ trace' = Append(trace, Call("poll_next", TRUE))
    /\ UNCHANGED <<dir, store, pc, command, data, publish_date, size, upload_url,
                   duraction, episode, episodes, rendered_podcast, stdout, result,
                   dir_before, uuids, ops>>

\* upload_contents without the ? of line 64: the error is dropped
upload_contents_ignore_error(sz, object_key, url, next_pc) ==
    LET req == put_request(sz, PublishingConfig.bucket, object_key)
    IN \/ /\ bytes_read = sz
          /\ trace' = Append(trace, Call("put_object", TRUE))
          /\ store' = put_object(store, req)
          /\ url' = public_url(PublishingConfig.region, PublishingConfig.bucket,
                               object_key)
          /\ pc' = next_pc
          /\ UNCHANGED result
       \/ /\ trace' = Append(trace, Call("put_object", FALSE))
          /\ store' \in {store, put_object(store, req)}
          /\ url' = public_url(PublishingConfig.region, PublishingConfig.bucket,
                               object_key)
          /\ pc' = next_pc
          /\ UNCHANGED result

\* upload_contents(read, size, region, bucket, object_key): one put_object
\* request; on an error the store may or may not have taken the object
upload_contents(sz, object_key, url, next_pc) ==
    LET req == put_request(sz, PublishingConfig.bucket, object_key)
    IN \/ /\ bytes_read = sz
          /\ trace' = Append(trace, Call("put_object", TRUE))
          /\ store' = put_object(store, req)
          /\ url' = public_url(PublishingConfig.region, PublishingConfig.bucket,
                               object_key)
          /\ pc' = next_pc
          /\ UNCHANGED result
       \/ /\ trace' = Append(trace, Call("put_object", FALSE))
          /\ store' \in {store, put_object(store, req)}
          /\ result' = "S3UploadError"
          /\ pc' = "exit"
          /\ UNCHANGED url

\* lines 126-134
create_episode_upload ==
    /\ pc = "upload"
    /\ upload_contents(size, artifact_key(publish_name), upload_url, "probe")
    /\ stdout' = IF pc' = "probe" THEN Append(stdout, "Uploaded file") ELSE stdout
    /\ UNCHANGED <<dir, command, data, publish_date, size, duraction, episode,
                   episodes, rendered_podcast, dir_before, uuids, ops,
                   pb, bytes_read>>

\* lines 136-140: mp3_metadata::read_from_file
create_episode_probe ==
    /\ pc = "probe"
    /\ \/ /\ trace' = Append(trace, Call("read_from_file", FALSE))
          /\ result' = "Mp3Error"
          /\ pc' = "exit"
          /\ UNCHANGED duraction
       \/ /\ trace' = Append(trace, Call("read_from_file", TRUE))
          /\ duraction' \in Durations
          /\ pc' = "number"
          /\ UNCHANGED result
    /\ UNCHANGED <<dir, store, command, data, publish_date, size, upload_url,
                   episode, episodes, rendered_podcast, stdout, dir_before, uuids, ops,
                   pb, bytes_read>>

\* lines 142-160: build the Episode and number it
create_episode_number ==
    /\ pc = "number"
    /\ uuids' = uuids + 1
    /\ \/ /\ trace' = Append(trace, Call("get_all_episodes", FALSE))
          /\ episode' = new_episode(new_v4(uuids'), EpisodeTitle, publish_date,
                                    upload_url, duraction, size)
          /\ result' = "IoError"
          /\ pc' = "exit"
       \/ /\ trace' = Append(trace, Call("get_all_episodes", TRUE))
          /\ \E all \in get_all_episodes(dir) :
                episode' = update_episode_numbers(
                    new_episode(new_v4(uuids'), EpisodeTitle, publish_date,
                                upload_url, duraction, size), all)
          /\ pc' = "write"
          /\ UNCHANGED result
    /\ UNCHANGED <<dir, store, command, data, publish_date, size, upload_url,
                   duraction, episodes, rendered_podcast, stdout, dir_before, ops,
                   pb, bytes_read>>

\* lines 164-171: serialize the Episode and write its file
create_episode_write ==
    /\ pc = "write"
    /\ \/ /\ trace' = Append(trace, Call("write", FALSE))
          /\ result' = "IoError"
          /\ UNCHANGED dir
       \/ /\ trace' = Append(trace, Call("write", TRUE))
          /\ dir' = fs_write(dir, episode_file(publish_name), to_yaml(episode))
          /\ result' = "Ok"
    /\ pc' = "exit"
    /\ UNCHANGED <<store, command, data, publish_date, size, upload_url, duraction,
                   episode, episodes, rendered_podcast, stdout, dir_before, uuids, ops,
                   pb, bytes_read>>

(***************************************************************************)
(* render_xml                                                              *)
(***************************************************************************)
\* lines 218-222: enumerate the episodes and build the document
render_xml_generate(upload) ==
    /\ pc = "idle"
    /\ ops < MaxOps
    /\ ops' = ops + 1
    /\ command' = "render-channel"
    /\ data' = [NoArgs EXCEPT !.upload = upload]
    /\ dir_before' = dir
    /\ stdout' = <<>>
    /\ \/ /\ trace' = <<Call("get_all_episodes", FALSE)>>
          /\ result' = "IoError"
          /\ pc' = "exit"
          /\ UNCHANGED <<episodes, rendered_podcast>>
       \/ /\ trace' = <<Call("get_all_episodes", TRUE)>>
          /\ episodes' \in get_all_episodes(dir)
          /\ rendered_podcast' = generate_podcast_xml(ChannelDetails, episodes')
          /\ pc' = IF upload THEN "render_upload" ELSE "render_print"
          /\ UNCHANGED result
    /\ UNCHANGED <<dir, store, publish_date, size, upload_url, duraction, episode,
                   uuids,
                   pb, bytes_read>>

\* lines 224-237
render_xml_upload ==
    /\ pc = "render_upload"
    /\ upload_contents(document_len(rendered_podcast), podcast_key, upload_url,
                       "render_done")
    /\ stdout' = IF pc' = "render_done" THEN Append(stdout, "Podcast URL") ELSE stdout
    /\ UNCHANGED <<dir, command, data, publish_date, size, duraction, episode,
                   episodes, rendered_podcast, dir_before, uuids, ops,
                   pb, bytes_read>>

\* lines 238-240
render_xml_print ==
    /\ pc = "render_print"
    /\ stdout' = Append(stdout, "rendered_podcast")
    /\ pc' = "render_done"
    /\ UNCHANGED <<dir, store, command, data, publish_date, size, upload_url,
                   duraction, episode, episodes, rendered_podcast, result, trace, dir_before,
                   uuids, ops,
                   pb, bytes_read>>

\* line 242
render_xml_ok ==
    /\ pc = "render_done"
    /\ result' = "Ok"
    /\ pc' = "exit"
    /\ UNCHANGED <<dir, store, command, data, publish_date, size, upload_url,
                   duraction, episode, episodes, rendered_podcast, stdout, trace, dir_before,
                   uuids, ops,
                   pb, bytes_read>>

(***************************************************************************)
(* main: the process returns; the next invocation starts afresh            *)
(***************************************************************************)
main_return ==
    /\ pc = "exit"
    /\ pc' = "idle"
    /\ command' = "none"
    /\ data' = NoArgs
    /\ publish_date' = 0
    /\ size' = 0
    /\ upload_url' = <<>>
    /\ duraction' = 0
    /\ episode' = NoEpisode
    /\ episodes' = <<>>
    /\ rendered_podcast' = NoDocument
    /\ stdout' = <<>>
    /\ result' = "none"
    /\ trace' = <<>>
    /\ dir_before' = dir
    /\ pb' = 0
    /\ bytes_read' = 0
    /\ UNCHANGED <<dir, store, uuids, ops>>

Next ==
    \/ \E date \in DateArgs : create_episode_parse(date)
    \/ create_episode_open
    \/ poll_next
    \/ create_episode_upload
    \/ create_episode_probe
    \/ create_episode_number
    \/ create_episode_write
    \/ \E upload \in BOOLEAN : render_xml_generate(upload)
    \/ render_xml_upload
    \/ render_xml_print
    \/ render_xml_ok
    \/ main_return

Spec == Init /\ [][Next]_vars

(***************************************************************************)
(* upload_contents on its own, for any object key                          *)
(***************************************************************************)
KeyTokens == {"/", ".", "mp3", "xml", "zzz"}

ObjectKeys == UNION {[1..n -> KeyTokens] : n \in 1..MaxKeyLen}

\* the declared length of the source
BodySizes == 0..MaxBody

InitUpload ==
    /\ dir = [f \in {NotesFile} |-> NotesText]
    /\ store = NoObjects
    /\ pc = "upload_contents"
    /\ command = "none"
    /\ \E key \in ObjectKeys : data = [NoArgs EXCEPT !.object_key = key]
    /\ publish_date = 0
    /\ size \in BodySizes
    /\ upload_url = <<>>
    /\ duraction = 0
    /\ episode = NoEpisode
    /\ episodes = <<>>
    /\ rendered_podcast = NoDocument
    /\ stdout = <<>>
    /\ result = "none"
    /\ trace = <<>>
    /\ dir_before = dir
    /\ uuids = 0
    /\ ops = 0
    /\ pb = 0
    /\ bytes_read = 0

upload_contents_call ==
    /\ pc = "upload_contents"
    /\ upload_contents(size, data.object_key, upload_url, "returned")
    /\ UNCHANGED <<dir, command, data, publish_date, size, duraction, episode,
                   episodes, rendered_podcast, stdout, dir_before, uuids, ops,
                   pb, bytes_read>>

NextUpload == upload_contents_call \/ poll_next

SpecUpload == InitUpload /\ [][NextUpload]_vars

(***************************************************************************)
(* Properties                                                              *)
(***************************************************************************)
Called(name) == \E i \in DOMAIN trace : trace[i].call = name

Failed(name) == \E i \in DOMAIN trace : trace[i] = Call(name, FALSE)

\* C1: in an execution of create_episode in which the audio probe returns an
\* error, no put-object request has been issued.
C1_NoUploadWhenProbeFails ==
    (command = "create-episode" /\ Failed("read_from_file")) => ~Called("put_object")

\* C2: no step updates or deletes a file of the episode directory, and a
\* successful create_episode adds exactly one file.
C2_NeverUpdatesOrDeletes ==
    [][/\ \A f \in DOMAIN dir : f \in DOMAIN dir' /\ dir'[f] = dir[f]
       /\ (pc = "write" /\ result' = "Ok")
            => Cardinality(DOMAIN dir') = Cardinality(DOMAIN dir) + 1]_vars

\* C3: when upload_contents returns an error inside create_episode, the
\* operation returns that error, update_episode_numbers is never run, no
\* episode file is written and the directory is as it was before the operation.
C3_UploadFailureAborts ==
    (command = "create-episode" /\ Failed("put_object"))
        => /\ pc = "exit"
           /\ result = "S3UploadError"
           /\ ~Called("read_from_file")
           /\ ~Called("get_all_episodes")
           /\ ~Called("write")
           /\ episode = NoEpisode
           /\ dir = dir_before

C3_Witness ==
    /\ command = "create-episode"
    /\ Failed("put_object")
    /\ pc = "exit"
    /\ Cardinality(yaml_paths(dir)) >= 2
    /\ artifact_key(publish_name) \in DOMAIN store

Numbering(y) == <<y.season, y.episodeNumber>>

\* C4: no two episode records of the directory have the same
\* (season, episode_number) pair.
C4_UniqueNumbering ==
    \A f, g \in yaml_paths(dir) : f # g => Numbering(dir[f]) # Numbering(dir[g])

C4_Witness ==
    /\ Cardinality(yaml_paths(dir)) = 4
    /\ ops = 2
    /\ \E f, g \in yaml_paths(dir) :
          /\ dir[f].season < dir[g].season
          /\ dir[f].episodeNumber > dir[g].episodeNumber

Stored(d) == {d[f] : f \in yaml_paths(d)}

MaxSeasonOf(d) == CHOOSE s \in {y.season : y \in Stored(d)} :
                      \A y \in Stored(d) : y.season <= s

MaxEpisodeNumberIn(d, s) ==
    CHOOSE n \in {y.episodeNumber : y \in {z \in Stored(d) : z.season = s}} :
        \A y \in {z \in Stored(d) : z.season = s} : y.episodeNumber <= n

\* C5: for a non-empty catalog the new episode gets the maximum season and one
\* more than the maximum episode_number among the episodes of that season.
C5_MaxOfMaxSeason ==
    (pc = "write" /\ yaml_paths(dir) # {})
        => /\ episode.season = MaxSeasonOf(dir)
           /\ episode.episode_number = 1 + MaxEpisodeNumberIn(dir, MaxSeasonOf(dir))

\* C6: every order of enumerating the catalog gives the new episode the same
\* (season, episode_number) pair.
C6_OrderIndependent ==
    pc = "write"
        => \A all \in get_all_episodes(dir) :
              LET other == update_episode_numbers(episode, all)
              IN /\ other.season = episode.season
                 /\ other.episode_number = episode.episode_number

\* a file create_episode wrote
IsSessionFile(f) == Len(f) = 4 /\ f[2] = "-session"

\* C7: every record persisted by create_episode has season >= 1 and
\* episode_number >= 1.
C7_PositiveNumbering ==
    \A f \in yaml_paths(dir) :
        IsSessionFile(f) => dir[f].season >= 1 /\ dir[f].episodeNumber >= 1

\* C8: with no episode in the directory, update_episode_numbers sets season 0
\* and episode_number 1, whatever placeholders the Episode carried.
C8_EmptyCatalog ==
    (pc = "write" /\ yaml_paths(dir) = {})
        => episode.season = 0 /\ episode.episode_number = 1

C8_Witness ==
    /\ pc = "write"
    /\ yaml_paths(dir) = {}
    /\ NotesFile \in DOMAIN dir
    /\ new_episode(<<>>, <<>>, 0, <<>>, 0, 0).season = 1
    /\ new_episode(<<>>, <<>>, 0, <<>>, 0, 0).episode_number = 0
    /\ episode.season = 0

IsItem(el) == el.name = "item"

Items(doc) == SelectSeq(doc.root.children[1].children, IsItem)

Child(el, name) ==
    el.children[CHOOSE i \in DOMAIN el.children : el.children[i].name = name]

Rendered == pc \in {"render_upload", "render_print", "render_done"}

\* C9: the document has exactly one item element per input episode, and the
\* i-th item carries the guid, season and episode number of the i-th episode.
C9_ItemsInOrder ==
    Rendered
        => /\ Len(Items(rendered_podcast)) = Len(episodes)
           /\ \A i \in DOMAIN episodes :
                 LET item == Items(rendered_podcast)[i]
                 IN /\ unescape(Child(item, "guid").text) = episodes[i].id
                    /\ parse_uint(Child(item, "itunes:season").text)
                         = episodes[i].season
                    /\ parse_uint(Child(item, "itunes:episode").text)
                         = episodes[i].episode_number

C9_Witness ==
    /\ pc = "render_done"
    /\ Len(episodes) = 3
    /\ episodes[1].id = <<"<", "b">>
    /\ episodes[2].id = new_v4(1)
    /\ episodes[3].id = <<"a">>
    /\ episodes[1].season > episodes[3].season

EndsInDotMp3(key) ==
    Len(key) >= 2 /\ key[Len(key)] = "mp3" /\ key[Len(key) - 1] = "."

\* C10: the stored content type is the sniffed type when there is one,
\* audio/mpeg when there is none and the key ends in .mp3, and
\* application/octet-stream otherwise.
C10_ContentType ==
    \A key \in DOMAIN store :
        LET sniffed == from_path(key)
            content_type == store[key].content_type
        IN /\ sniffed # NoMime => content_type = sniffed
           /\ (sniffed = NoMime /\ EndsInDotMp3(key)) => content_type = "audio/mpeg"
           /\ (sniffed = NoMime /\ ~EndsInDotMp3(key))
                => content_type = "application/octet-stream"

Uploading == pc \in {"upload", "render_upload", "upload_contents"}

ChunksRead == Cardinality({i \in DOMAIN trace : trace[i].call = "poll_next"})

PutSucceeded == \E i \in DOMAIN trace : trace[i] = Call("put_object", TRUE)

\* C11: the byte counter of the progress bar is 0 before the first chunk, a
\* step that reads a chunk raises it by exactly the size of that chunk, no other
\* step of the upload changes it, and when put_object has succeeded it equals
\* the declared size.
C11_ProgressReachesSize ==
    [][/\ (Uploading /\ ChunksRead = 0) => pb = 0
       /\ Uploading => pb' >= pb
       /\ (Uploading /\ ChunksRead' = ChunksRead + 1)
            => (pb' - pb = bytes_read' - bytes_read /\ pb' > pb)
       /\ (Uploading /\ ChunksRead' = ChunksRead) => pb' = pb
       /\ (Uploading /\ PutSucceeded') => pb' = body_len]_vars

C11_Witness ==
    /\ pc = "returned"
    /\ PutSucceeded
    /\ size = 3
    /\ ChunksRead = 2
    /\ pb = 3

====
